---- MODULE Spec2Model ----
(***************************************************************************)
(* Model of the zincati update agent: the RefreshTick handler of the       *)
(* UpdateAgent actor (src/update_agent/actor.rs), the state transitions it *)
(* applies to UpdateAgentState, and the scheduling of the next tick.       *)
(***************************************************************************)
EXTENDS Integers, Sequences, FiniteSets, TLC

(* ---------------------------------------------------------------------- *)
(* Bounds and constants                                                    *)
(* ---------------------------------------------------------------------- *)

\* Largest number of RefreshTick chains (self-posted plus IPC-injected).
MaxChains == 2

\* Releases the update graph may offer, and the booted deployment.
Releases == {"r1", "r2"}
Booted == "r0"
NoRelease == "none"

\* update_agent::MAX_DEPLOY_ATTEMPTS and update_agent::MAX_FINALIZE_POSTPONEMENTS.
MAX_DEPLOY_ATTEMPTS == 3
MAX_FINALIZE_POSTPONEMENTS == 10

\* Saturation point of the per-episode history counter of user-session blocks.
BlocksCap == MAX_FINALIZE_POSTPONEMENTS + 1

(* ---------------------------------------------------------------------- *)
(* UpdateAgentState: a tagged union                                        *)
(* ---------------------------------------------------------------------- *)

St(tag, rel, cnt) == [tag |-> tag, rel |-> rel, cnt |-> cnt]

StartState == St("StartState", NoRelease, 0)
Initialized == St("Initialized", NoRelease, 0)
ReportedSteady == St("ReportedSteady", NoRelease, 0)
NoNewUpdate == St("NoNewUpdate", NoRelease, 0)
UpdateAvailable(r, c) == St("UpdateAvailable", r, c)
UpdateStaged(r, n) == St("UpdateStaged", r, n)
UpdateFinalized(r) == St("UpdateFinalized", r, 0)
EndState == St("EndState", NoRelease, 0)

\* std::mem::discriminant
discriminant(s) == s.tag

\* Every value of UpdateAgentState over the modelled releases.
AllStates ==
    {StartState, Initialized, ReportedSteady, NoNewUpdate, EndState}
    \cup {UpdateAvailable(r, c) : r \in Releases, c \in 0..MAX_DEPLOY_ATTEMPTS}
    \cup {UpdateStaged(r, n) : r \in Releases, n \in 0..MAX_FINALIZE_POSTPONEMENTS}
    \cup {UpdateFinalized(r) : r \in Releases}

\* State transition helpers of UpdateAgentState.
initialized == Initialized
end == EndState
reported_steady == ReportedSteady
no_new_update == NoNewUpdate
update_available(release) == UpdateAvailable(release, 0)
update_staged(release) == UpdateStaged(release, MAX_FINALIZE_POSTPONEMENTS)
update_finalized(release) == UpdateFinalized(release)

\* Record a failed deploy attempt: the new state (abandoned or retried).
record_failed_deploy(s) ==
    LET fail_count == s.cnt + 1 IN
    IF fail_count = MAX_DEPLOY_ATTEMPTS
    THEN NoNewUpdate
    ELSE UpdateAvailable(s.rel, fail_count)

\* Whether interactive user sessions allow finalization.
usersessions_can_finalize(s, active) ==
    IF s.cnt = 0 THEN TRUE ELSE ~active

\* Record a postponement due to active user sessions.
record_postponement(s) ==
    UpdateStaged(s.rel, IF s.cnt > 0 THEN s.cnt - 1 ELSE 0)

\* Per-state pause between refresh cycles.
get_refresh_delay(s) ==
    CASE s.tag = "NoNewUpdate" -> "steady_jittered"
      [] s.tag = "UpdateStaged" -> "retry_jittered"
      [] s.tag = "EndState" -> "never"
      [] OTHER -> "short"


(* ---------------------------------------------------------------------- *)
(* Program state                                                           *)
(* ---------------------------------------------------------------------- *)

VARIABLES
    enabled,         \* UpdateAgent.enabled (configuration, fixed)
    started,         \* Actor::started has run
    state,           \* the UpdateAgentState behind the RwLock
    lockHeld,        \* a tick future holds the write guard
    prev_state,      \* the clone taken when the guard was acquired
    action,          \* the tick_* function the guard holder dispatched to
    calls,           \* external calls made by the current / last tick
    sessions_active, \* interactive user sessions seen by the last gate check
    mailbox,         \* RefreshTick messages queued in the actor mailbox
    waiting,         \* spawned tick futures awaiting the write guard
    timers,          \* RefreshTick messages posted with a finite delay
    parked,          \* RefreshTick messages posted with the EndState delay
    sched,           \* inputs and result of the last scheduling decision
    episodeStages,   \* history: stage() calls since UpdateAvailable was entered
    episodeBlocks,   \* history: user-session blocks since UpdateStaged was entered
    runBlocks,       \* history: user-session blocks since entry or last strategy denial
    faults,          \* whether staging, the strategy, the sessions gate or finalize may say no
    finalization_success, \* the FINALIZATION_SUCCESS counter
    holders,         \* number of tick futures that own a write guard
    dbus,            \* position of the D-Bus method call and of the tick it caused
    reply,           \* a D-Bus method's command, the result it received and its return value
    jitter_call,     \* add_jitter's period, random draw and result
    client,          \* the RpmOstreeClient (its status_cache)
    depls_dir,       \* the deployments directory: its mtime, if it can be read
    status_cache_attempts, \* the STATUS_CACHE_ATTEMPTS counter
    status_cache_misses,   \* the STATUS_CACHE_MISSES counter
    query            \* the last status / local-deployments query and its result

vars == <<enabled, started, state, lockHeld, prev_state, action, calls,
          sessions_active, mailbox, waiting, timers, parked, sched,
          episodeStages, episodeBlocks, runBlocks,
          faults, finalization_success, holders, dbus,
          reply, jitter_call, client, depls_dir,
          status_cache_attempts, status_cache_misses, query>>

\* The agent actor's variables, and those of the D-Bus methods' return
\* values, of add_jitter and of the deployment client.
agentVars == <<enabled, started, state, lockHeld, prev_state, action, calls,
               sessions_active, mailbox, waiting, timers, parked, sched,
               episodeStages, episodeBlocks, runBlocks,
               faults, finalization_success, holders, dbus>>
clientVars == <<client, depls_dir, status_cache_attempts, status_cache_misses, query>>
sideVars == <<reply, jitter_call, clientVars>>

\* One external call: operation, release argument, outcome; a deployments
\* query also carries the releases it returned and those it left out as staged.
Call(op, rel, ok) == [op |-> op, rel |-> rel, ok |-> ok, depls |-> {}, staged |-> {}]

\* One deployment of the status payload (DeploymentJSON, as a Release).
Entry(r, staged, booted) == [release |-> r, staged |-> staged, booted |-> booted]

\* The status payloads of the deployment tool: the booted deployment, and
\* each other release absent, finalized or only staged.
DeploymentKinds == {"absent", "finalized", "staged"}
StatusOf(k1, k2) ==
    <<Entry(Booted, FALSE, TRUE)>>
      \o (IF k1 = "absent" THEN <<>> ELSE <<Entry("r1", k1 = "staged", FALSE)>>)
      \o (IF k2 = "absent" THEN <<>> ELSE <<Entry("r2", k2 = "staged", FALSE)>>)
Statuses == {StatusOf(k1, k2) : k1 \in DeploymentKinds, k2 \in DeploymentKinds}

\* Faulty variant: the staged entries are the ones kept.
parse_local_deployments_inverted(status, omit_staged) ==
    {status[i].release : i \in {j \in DOMAIN status : ~(omit_staged /\ ~status[j].staged)}}

\* parse_local_deployments: the set of releases, staged entries left out
\* when omit_staged is set.
parse_local_deployments(status, omit_staged) ==
    {status[i].release : i \in {j \in DOMAIN status : ~(omit_staged /\ status[j].staged)}}

\* Result of the QueryLocalDeployments message (omit_staged = true).
QueryErr == [ok |-> FALSE, depls |-> {}, staged |-> {}]
QueryOk(status) ==
    [ok |-> TRUE,
     depls |-> parse_local_deployments(status, TRUE),
     staged |-> {status[i].release : i \in {j \in DOMAIN status : status[j].staged}}]
QueryResults == {QueryErr} \cup {QueryOk(status) : status \in Statuses}

\* The call record of a deployments query.
CallQuery(res) ==
    [op |-> "local_deployments", rel |-> NoRelease, ok |-> res.ok,
     depls |-> res.depls, staged |-> res.staged]

\* Cincinnati::fetch_update_hint: at most one target, never one of the
\* local releases it is given.
fetch_update_hint(depls) == {NoRelease} \cup ((Releases \cup {Booted}) \ depls)

Min(a, b) == IF a < b THEN a ELSE b

(* ---------------------------------------------------------------------- *)
(* Scheduler                                                               *)
(* ---------------------------------------------------------------------- *)

\* Faulty variant: the ReportedSteady -> NoNewUpdate exception is dropped.
should_tick_immediately_noexc(prev, cur) ==
    discriminant(prev) # discriminant(cur)

should_tick_immediately(prev, cur) ==
    IF discriminant(prev) # discriminant(cur)
    THEN IF ~(prev = ReportedSteady /\ cur = NoNewUpdate)
         THEN TRUE
         ELSE FALSE
    ELSE FALSE

\* Faulty variant: the next tick is always delayed.
refresh_delay_delayed(prev, cur) == get_refresh_delay(cur)

\* None (immediate) or the pause before the next tick.
refresh_delay(prev, cur) ==
    IF should_tick_immediately(prev, cur)
    THEN "immediate"
    ELSE get_refresh_delay(cur)


(* ---------------------------------------------------------------------- *)
(* Tick handler: dispatch and the state change of each tick_* function     *)
(* ---------------------------------------------------------------------- *)

\* Faulty variant: EndState keeps polling for updates.
dispatch_endpolls(s) ==
    CASE s.tag = "StartState" -> "tick_initialize"
      [] s.tag = "Initialized" -> "tick_report_steady"
      [] s.tag = "ReportedSteady" -> "tick_check_updates"
      [] s.tag = "NoNewUpdate" -> "tick_check_updates"
      [] s.tag = "UpdateAvailable" -> "tick_stage_update"
      [] s.tag = "UpdateStaged" -> "tick_finalize_update"
      [] s.tag = "UpdateFinalized" -> "tick_end"
      [] s.tag = "EndState" -> "tick_check_updates"

\* Faulty variant: NoNewUpdate dispatches to staging.
dispatch_swapped(s) ==
    CASE s.tag = "StartState" -> "tick_initialize"
      [] s.tag = "Initialized" -> "tick_report_steady"
      [] s.tag = "ReportedSteady" -> "tick_check_updates"
      [] s.tag = "NoNewUpdate" -> "tick_stage_update"
      [] s.tag = "UpdateAvailable" -> "tick_stage_update"
      [] s.tag = "UpdateStaged" -> "tick_finalize_update"
      [] s.tag = "UpdateFinalized" -> "tick_end"
      [] s.tag = "EndState" -> "nop_state"

\* The match on *state in Handler<RefreshTick>::handle.
dispatch(s) ==
    CASE s.tag = "StartState" -> "tick_initialize"
      [] s.tag = "Initialized" -> "tick_report_steady"
      [] s.tag = "ReportedSteady" -> "tick_check_updates"
      [] s.tag = "NoNewUpdate" -> "tick_check_updates"
      [] s.tag = "UpdateAvailable" -> "tick_stage_update"
      [] s.tag = "UpdateStaged" -> "tick_finalize_update"
      [] s.tag = "UpdateFinalized" -> "tick_end"
      [] s.tag = "EndState" -> "nop_state"

\* Result of a tick_* function: the new state, the calls it made, and
\* whether FINALIZATION_BLOCKED{active_usersessions} was incremented.
Outcome(s, cs) == [state |-> s, calls |-> cs, blocked |-> FALSE, success |-> FALSE]
OutcomeBlocked(s, cs) == [state |-> s, calls |-> cs, blocked |-> TRUE, success |-> FALSE]

\* Faulty variant: driver registration does not depend on `enabled`.
initialize_outcome_alwaysreg(en, regOk, res) ==
    Outcome(IF en THEN initialized ELSE end,
            {Call("register_as_driver", NoRelease, regOk), CallQuery(res)})

\* Faulty variant: a failed driver registration ends the agent.
initialize_outcome_regfatal(en, regOk, res) ==
    Outcome(IF en /\ regOk THEN initialized ELSE end,
            (IF en THEN {Call("register_as_driver", NoRelease, regOk)} ELSE {})
              \cup {CallQuery(res)})

\* Faulty variant: a failed deployments query ends the agent.
initialize_outcome_queryfatal(en, regOk, res) ==
    Outcome(IF en /\ res.ok THEN initialized ELSE end,
            (IF en THEN {Call("register_as_driver", NoRelease, regOk)} ELSE {})
              \cup {CallQuery(res)})

\* tick_initialize, given the results of registration and of the query.
initialize_outcome(en, regOk, res) ==
    Outcome(IF en THEN initialized ELSE end,
            (IF en THEN {Call("register_as_driver", NoRelease, regOk)} ELSE {})
              \cup {CallQuery(res)})

\* tick_report_steady, given the strategy's answer.
report_steady_outcome(s, is_steady) ==
    Outcome(IF is_steady THEN reported_steady ELSE s,
            {Call("report_steady", NoRelease, is_steady)})

\* Faulty variant: the update graph is asked without the local deployments.
hint_depls_none(res) == {}

\* The local releases tick_check_updates hands to fetch_update_hint.
hint_depls(res) == res.depls

\* Faulty variant: a found release starts with one recorded failure.
check_updates_outcome_keepcount(s, res, hint) ==
    IF res.ok
    THEN Outcome(IF hint # NoRelease THEN UpdateAvailable(hint, 1) ELSE no_new_update,
                 {CallQuery(res),
                  Call("fetch_update_hint", hint, hint # NoRelease)})
    ELSE Outcome(no_new_update, {Call("local_deployments", NoRelease, FALSE)})

\* tick_check_updates, given the query result and the update graph's hint.
check_updates_outcome(s, res, hint) ==
    IF res.ok
    THEN Outcome(IF hint # NoRelease THEN update_available(hint) ELSE no_new_update,
                 {CallQuery(res),
                  Call("fetch_update_hint", hint, hint # NoRelease)})
    ELSE Outcome(no_new_update, {Call("local_deployments", NoRelease, FALSE)})

\* Faulty variant: the failure is not recorded.
deploy_attempt_failed_skip(s) == s

\* deploy_attempt_failed: record the failure in the state.
deploy_attempt_failed(s) == record_failed_deploy(s)

\* Faulty variant: staging carries the failure count into UpdateStaged.
stage_update_outcome_carry(s, release, ok) ==
    Outcome(IF ok THEN UpdateStaged(release, s.cnt) ELSE deploy_attempt_failed(s),
            {Call("stage", release, ok)})

\* tick_stage_update, given the outcome of StageDeployment.
stage_update_outcome(s, release, ok) ==
    Outcome(IF ok THEN update_staged(release) ELSE deploy_attempt_failed(s),
            {Call("stage", release, ok)})


\* Faulty variant: a failed finalization abandons the release.
finalized_outcome_abandon(s, release, finOk, cs) ==
    [state |-> IF finOk THEN update_finalized(release) ELSE no_new_update,
     calls |-> cs, blocked |-> FALSE, success |-> finOk]

\* Faulty variant: a successful finalization is not counted.
finalized_outcome_nocount(s, release, finOk, cs) ==
    [state |-> IF finOk THEN update_finalized(release) ELSE s,
     calls |-> cs, blocked |-> FALSE, success |-> FALSE]

\* The end of tick_finalize_update once FinalizeDeployment has answered: on
\* Ok, FINALIZATION_SUCCESS is incremented and the state becomes UpdateFinalized.
finalized_outcome(s, release, finOk, cs) ==
    [state |-> IF finOk THEN update_finalized(release) ELSE s,
     calls |-> cs, blocked |-> FALSE, success |-> finOk]

\* Faulty variant: a strategy denial leaves the postponement counter as it is.
finalize_update_outcome_noreset(s, release, can, active, finOk) ==
    IF ~can
    THEN Outcome(s, {Call("can_finalize", release, FALSE)})
    ELSE IF ~usersessions_can_finalize(s, active)
         THEN OutcomeBlocked(record_postponement(s),
                      {Call("can_finalize", release, TRUE),
                       Call("usersessions_can_finalize", release, FALSE)})
         ELSE finalized_outcome(s, release, finOk,
                      {Call("can_finalize", release, TRUE),
                       Call("usersessions_can_finalize", release, TRUE),
                       Call("finalize", release, finOk)})

\* Faulty variant: a user-session block does not record the postponement.
finalize_update_outcome_nodecr(s, release, can, active, finOk) ==
    IF ~can
    THEN Outcome(update_staged(release), {Call("can_finalize", release, FALSE)})
    ELSE IF ~usersessions_can_finalize(s, active)
         THEN OutcomeBlocked(s,
                      {Call("can_finalize", release, TRUE),
                       Call("usersessions_can_finalize", release, FALSE)})
         ELSE finalized_outcome(s, release, finOk,
                      {Call("can_finalize", release, TRUE),
                       Call("usersessions_can_finalize", release, TRUE),
                       Call("finalize", release, finOk)})

\* Faulty variant: the strategy's answer is ignored.
finalize_update_outcome_noconsent(s, release, can, active, finOk) ==
    IF ~usersessions_can_finalize(s, active)
    THEN OutcomeBlocked(record_postponement(s),
                 {Call("can_finalize", release, can),
                  Call("usersessions_can_finalize", release, FALSE)})
    ELSE finalized_outcome(s, release, finOk,
                 {Call("can_finalize", release, can),
                  Call("usersessions_can_finalize", release, TRUE),
                  Call("finalize", release, finOk)})

\* tick_finalize_update, given the strategy's answer, whether interactive
\* user sessions are present, and the outcome of FinalizeDeployment.
finalize_update_outcome(s, release, can, active, finOk) ==
    IF ~can
    THEN Outcome(update_staged(release), {Call("can_finalize", release, FALSE)})
    ELSE IF ~usersessions_can_finalize(s, active)
         THEN OutcomeBlocked(record_postponement(s),
                      {Call("can_finalize", release, TRUE),
                       Call("usersessions_can_finalize", release, FALSE)})
         ELSE finalized_outcome(s, release, finOk,
                      {Call("can_finalize", release, TRUE),
                       Call("usersessions_can_finalize", release, TRUE),
                       Call("finalize", release, finOk)})

\* Faulty variant: tick_end leaves the state as it is.
end_outcome_stay == Outcome(UpdateFinalized(prev_state.rel), {})

\* tick_end: no external action, the state becomes EndState.
end_outcome == Outcome(end, {})

\* nop_state: nothing happens.
nop_outcome(s) == Outcome(s, {})

(* ---------------------------------------------------------------------- *)
(* D-Bus interface: what check_update and finalize_update return           *)
(* ---------------------------------------------------------------------- *)

\* The result of the RefreshTick message as the D-Bus methods match on it:
\* Ok(state) or Err(e).
ResOk(s) == [ok |-> TRUE, state |-> s]
ResErr == [ok |-> FALSE, state |-> StartState]

\* A method's return value: Ok(versions) or Err(Failed(kind)).
Ret(kind, versions) == [kind |-> kind, versions |-> versions]
NoRet == Ret("none", <<>>)
NoReply == [cmd |-> "none", res |-> ResErr, out |-> NoRet]

\* Faulty variant: every state that carries a release is answered with its version.
check_update_anyrelease(res) ==
    IF res.ok
    THEN IF res.state = NoNewUpdate
         THEN Ret("ok", <<>>)
         ELSE IF res.state.rel # NoRelease
              THEN Ret("ok", <<res.state.rel>>)
              ELSE Ret("unexpected state", <<>>)
    ELSE Ret("failed", <<>>)

\* Updates::check_update, from the result of send_msg_to_agent on.
check_update(res) ==
    IF res.ok
    THEN IF res.state = NoNewUpdate
         THEN Ret("ok", <<>>)
         ELSE IF res.state.tag = "UpdateAvailable"
              THEN Ret("ok", <<res.state.rel>>)
              ELSE Ret("unexpected state", <<>>)
    ELSE Ret("failed", <<>>)

\* Updates::finalize_update, from the result of send_msg_to_agent on.
finalize_update(res) ==
    IF res.ok
    THEN IF res.state.tag = "UpdateStaged"
         THEN Ret("finalization attempt failed", <<>>)
         ELSE IF res.state.tag = "UpdateFinalized"
              THEN Ret("ok", <<res.state.rel>>)
              ELSE Ret("unexpected state", <<>>)
    ELSE Ret("failed", <<>>)

(* ---------------------------------------------------------------------- *)
(* Scheduler: add_jitter                                                   *)
(* ---------------------------------------------------------------------- *)

\* Width of the seconds counter (u64 in the source, narrowed so that every
\* period can be enumerated).
WordBits == 10
U64_MAX == 2^WordBits - 1

Max(a, b) == IF a > b THEN a ELSE b
saturating_mul(a, b) == Min(a * b, U64_MAX)
saturating_add(a, b) == Min(a + b, U64_MAX)

NoJitter == [secs |-> 0, rand |-> 0, out |-> 0, done |-> FALSE]

\* Faulty variant: the addition wraps around instead of saturating.
add_jitter_wrapping(secs, rand) ==
    (secs + saturating_mul(Max(secs \div 100, 1), rand)) % (U64_MAX + 1)

\* Faulty variant: the unit of jitter is a tenth of the period.
add_jitter_tenth(secs, rand) ==
    saturating_add(secs, saturating_mul(Max(secs \div 10, 1), rand))

\* add_jitter, for a period of secs seconds and the random draw rand.
add_jitter(secs, rand) ==
    LET jitter == saturating_mul(Max(secs \div 100, 1), rand)
    IN saturating_add(secs, jitter)

(* ---------------------------------------------------------------------- *)
(* Deployment client: status cache                                         *)
(* ---------------------------------------------------------------------- *)

\* Bounds: status queries per run, values of the directory's mtime, and
\* entries of a status payload.
MaxQueries == 3
MaxMtime == 1
MaxDepls == 3

\* StatusCache { status, mtime }, or None.
StatusCache(status, mtime) == [some |-> TRUE, status |-> status, mtime |-> mtime]
NoCache == [some |-> FALSE, status |-> <<>>, mtime |-> 0]

\* fs::metadata(OSTREE_DEPLS_PATH): the directory's mtime, or an error.
DirStates == [ok : BOOLEAN, mtime : 0..MaxMtime]

\* invoke_cli_status(false): a status payload, or an error.
ToolErr == [ok |-> FALSE, status |-> <<>>]
ToolResults == {ToolErr} \cup {[ok |-> TRUE, status |-> st] : st \in Statuses}

\* Faulty variant: any cache entry counts as fresh.
status_json_nomtime(cl, dir, tool) ==
    IF ~dir.ok
    THEN [ok |-> FALSE, status |-> <<>>, status_cache |-> cl.status_cache,
          miss |-> 0, invoked |-> 0]
    ELSE IF cl.status_cache.some
    THEN [ok |-> TRUE, status |-> cl.status_cache.status,
          status_cache |-> cl.status_cache, miss |-> 0, invoked |-> 0]
    ELSE IF ~tool.ok
    THEN [ok |-> FALSE, status |-> <<>>, status_cache |-> cl.status_cache,
          miss |-> 1, invoked |-> 1]
    ELSE [ok |-> TRUE, status |-> tool.status,
          status_cache |-> StatusCache(tool.status, dir.mtime),
          miss |-> 1, invoked |-> 1]

\* status_json, given the client, the directory and what the deployment tool
\* would answer: the result, the client's cache afterwards, the increment
\* of STATUS_CACHE_MISSES and the number of tool invocations.
\* STATUS_CACHE_ATTEMPTS is incremented on every call.
status_json(cl, dir, tool) ==
    IF ~dir.ok
    THEN [ok |-> FALSE, status |-> <<>>, status_cache |-> cl.status_cache,
          miss |-> 0, invoked |-> 0]
    ELSE IF cl.status_cache.some /\ cl.status_cache.mtime = dir.mtime
    THEN [ok |-> TRUE, status |-> cl.status_cache.status,
          status_cache |-> cl.status_cache, miss |-> 0, invoked |-> 0]
    ELSE IF ~tool.ok
    THEN [ok |-> FALSE, status |-> <<>>, status_cache |-> cl.status_cache,
          miss |-> 1, invoked |-> 1]
    ELSE [ok |-> TRUE, status |-> tool.status,
          status_cache |-> StatusCache(tool.status, dir.mtime),
          miss |-> 1, invoked |-> 1]

NoQuery == [op |-> "none", omit_staged |-> FALSE, status |-> <<>>, ok |-> FALSE,
            invoked |-> 0, depls |-> {}]

\* The deployment client before its first query.
InitClient ==
    /\ client = [status_cache |-> NoCache]
    /\ depls_dir = [ok |-> TRUE, mtime |-> 0]
    /\ status_cache_attempts = 0
    /\ status_cache_misses = 0
    /\ query = NoQuery

\* The D-Bus methods have returned nothing, add_jitter has not been called
\* and the deployment client has an empty cache.
InitSide ==
    /\ reply = NoReply
    /\ jitter_call = NoJitter
    /\ InitClient

(* ---------------------------------------------------------------------- *)
(* Actions                                                                 *)
(* ---------------------------------------------------------------------- *)

\* The D-Bus interface has no method call in progress.
DbusIdle == [phase |-> "idle", cmd |-> "none", force |-> FALSE, tick |-> "none", ahead |-> 0]

\* The answers a collaborator may give: any, or only the one that lets the
\* update proceed.
Answers(good) == IF faults THEN BOOLEAN ELSE {good}

Init ==
    /\ enabled \in BOOLEAN
    /\ started = FALSE
    /\ state = StartState
    /\ lockHeld = FALSE
    /\ prev_state = StartState
    /\ action = "none"
    /\ calls = {}
    /\ sessions_active = FALSE
    /\ mailbox = <<>>
    /\ waiting = 0
    /\ timers = 0
    /\ parked = 0
    /\ sched = [prev |-> StartState, cur |-> StartState, out |-> "none"]
    /\ episodeStages = 0
    /\ episodeBlocks = 0
    /\ runBlocks = 0
    /\ faults = TRUE
    /\ finalization_success = 0
    /\ holders = 0
    /\ dbus = DbusIdle
    /\ InitSide

\* Number of RefreshTick messages and tick futures in flight.
Chains == Len(mailbox) + waiting + timers + parked + (IF lockHeld THEN 1 ELSE 0)

\* Actor::started: kick-start the state machine with tick_now.
Started ==
    /\ ~started
    /\ started' = TRUE
    /\ mailbox' = Append(mailbox, "RefreshTick")
    /\ UNCHANGED <<enabled, state, lockHeld, prev_state, action, calls,
                   sessions_active, waiting, timers, parked, sched,
                   episodeStages, episodeBlocks, runBlocks,
                   faults, finalization_success, holders, dbus, sideVars>>

\* Updates::check_update / Updates::finalize_update: a D-Bus call sends a
\* RefreshTick carrying a command to the agent.
\* send_msg_to_agent then blocks on the reply.
IpcRequest ==
    /\ started
    /\ Chains < MaxChains
    /\ dbus.phase = "idle"
    /\ \E cmd \in {"CheckUpdate", "FinalizeUpdate"}, force \in BOOLEAN :
         /\ force => cmd = "FinalizeUpdate"
         /\ mailbox' = Append(mailbox, cmd)
         /\ dbus' = [phase |-> "blocked", cmd |-> cmd, force |-> force,
                     tick |-> "queued", ahead |-> 0]
    /\ UNCHANGED <<enabled, started, state, lockHeld, prev_state, action, calls,
                   sessions_active, waiting, timers, parked, sched,
                   episodeStages, episodeBlocks, runBlocks,
                   faults, finalization_success, holders, sideVars>>

\* block_on returns in check_update / finalize_update: the reply is matched
\* and the method returns to its caller.
IpcReturn ==
    /\ dbus.phase = "replied"
    /\ dbus' = DbusIdle
    /\ UNCHANGED <<enabled, started, state, lockHeld, prev_state, action, calls,
                   sessions_active, mailbox, waiting, timers, parked, sched,
                   episodeStages, episodeBlocks, runBlocks,
                   faults, finalization_success, holders, sideVars>>

\* A delayed RefreshTick (notify_later) becomes due and enters the mailbox.
TimerFire ==
    /\ timers > 0
    /\ timers' = timers - 1
    /\ mailbox' = Append(mailbox, "RefreshTick")
    /\ UNCHANGED <<enabled, started, state, lockHeld, prev_state, action, calls,
                   sessions_active, waiting, parked, sched,
                   episodeStages, episodeBlocks, runBlocks,
                   faults, finalization_success, holders, dbus, sideVars>>

\* Handler<RefreshTick>::handle: the message is ignored, a tick future is
\* spawned on the actor context and starts by awaiting the write guard; the
\* handler's result is the ready future ok(()), so a sender waiting for the
\* reply gets it as soon as handle returns.
HandleTick ==
    /\ mailbox # <<>>
    /\ mailbox' = Tail(mailbox)
    /\ waiting' = waiting + 1
    /\ dbus' = IF Head(mailbox) # "RefreshTick"
               THEN [dbus EXCEPT !.phase = "replied", !.tick = "waiting", !.ahead = waiting]
               ELSE dbus
    /\ UNCHANGED <<enabled, started, state, lockHeld, prev_state, action, calls,
                   sessions_active, timers, parked, sched,
                   episodeStages, episodeBlocks, runBlocks,
                   faults, finalization_success, holders, sideVars>>

\* The tick caused by the D-Bus call moves up the lock's queue, or gets the guard.
DbusTickAdvance ==
    IF dbus.tick = "waiting"
    THEN IF dbus.ahead = 0
         THEN [dbus EXCEPT !.tick = "running"]
         ELSE [dbus EXCEPT !.ahead = dbus.ahead - 1]
    ELSE dbus

\* Faulty variant: the guard is handed out while another tick owns it.
AcquireLock_unguarded ==
    /\ waiting > 0
    /\ lockHeld' = TRUE
    /\ holders' = holders + 1
    /\ waiting' = waiting - 1
    /\ prev_state' = state
    /\ action' = dispatch(state)
    /\ calls' = {}
    /\ dbus' = DbusTickAdvance
    /\ UNCHANGED <<enabled, started, state, sessions_active, mailbox, timers,
                   parked, sched, episodeStages, episodeBlocks, runBlocks,
                   faults, finalization_success, sideVars>>

\* lock.write_owned().await resolves: prev_state is cloned and the action
\* for the state is chosen.
AcquireLock ==
    /\ waiting > 0
    /\ ~lockHeld
    /\ lockHeld' = TRUE
    /\ holders' = holders + 1
    /\ waiting' = waiting - 1
    /\ prev_state' = state
    /\ action' = dispatch(state)
    /\ calls' = {}
    /\ dbus' = DbusTickAdvance
    /\ UNCHANGED <<enabled, started, state, sessions_active, mailbox, timers,
                   parked, sched, episodeStages, episodeBlocks, runBlocks,
                   faults, finalization_success, sideVars>>

\* The end of every tick: the action's result is applied, the next tick is
\* scheduled (update_machine) and the write guard is dropped.
Finish(out) ==
    LET pause == refresh_delay(prev_state, out.state) IN
    /\ state' = out.state
    /\ calls' = out.calls
    /\ lockHeld' = FALSE
    /\ sched' = [prev |-> prev_state, cur |-> out.state,
                 out |-> IF pause = "immediate" THEN "immediate" ELSE "delayed"]
    /\ mailbox' = IF pause = "immediate" THEN Append(mailbox, "RefreshTick") ELSE mailbox
    /\ timers' = IF pause \notin {"immediate", "never"} THEN timers + 1 ELSE timers
    /\ parked' = IF pause = "never" THEN parked + 1 ELSE parked
    /\ holders' = holders - 1
    /\ finalization_success' =
           IF out.success THEN Min(finalization_success + 1, 2) ELSE finalization_success
    /\ dbus' = IF dbus.tick = "running" THEN [dbus EXCEPT !.tick = "completed"] ELSE dbus
    /\ UNCHANGED <<enabled, started, prev_state, action, waiting, faults, sideVars>>

TickInitialize ==
    /\ lockHeld
    /\ action = "tick_initialize"
    /\ \E regOk \in BOOLEAN, res \in QueryResults :
         Finish(initialize_outcome(enabled, regOk, res))
    /\ UNCHANGED <<sessions_active, episodeStages, episodeBlocks, runBlocks>>

TickReportSteady ==
    /\ lockHeld
    /\ action = "tick_report_steady"
    /\ \E is_steady \in BOOLEAN :
         Finish(report_steady_outcome(state, is_steady))
    /\ UNCHANGED <<sessions_active, episodeStages, episodeBlocks, runBlocks>>

TickCheckUpdates ==
    /\ lockHeld
    /\ action = "tick_check_updates"
    /\ \E res \in QueryResults :
         \E hint \in fetch_update_hint(hint_depls(res)) :
           LET out == check_updates_outcome(state, res, hint) IN
           /\ Finish(out)
           /\ episodeStages' = IF out.state.tag = "UpdateAvailable" THEN 0 ELSE episodeStages
    /\ UNCHANGED <<sessions_active, episodeBlocks, runBlocks>>

TickStageUpdate ==
    /\ lockHeld
    /\ action = "tick_stage_update"
    /\ \E ok \in Answers(TRUE) :
         LET out == stage_update_outcome(state, prev_state.rel, ok) IN
         /\ Finish(out)
         /\ episodeStages' = Min(episodeStages + 1, MAX_DEPLOY_ATTEMPTS + 1)
         /\ episodeBlocks' = IF out.state.tag = "UpdateStaged" THEN 0 ELSE episodeBlocks
         /\ runBlocks' = IF out.state.tag = "UpdateStaged" THEN 0 ELSE runBlocks
    /\ UNCHANGED sessions_active

TickFinalizeUpdate ==
    /\ lockHeld
    /\ action = "tick_finalize_update"
    /\ \E can \in Answers(TRUE), active \in Answers(FALSE), finOk \in Answers(TRUE) :
         LET out == finalize_update_outcome(state, prev_state.rel, can, active, finOk)
             denied == \E c \in out.calls : c.op = "can_finalize" /\ ~c.ok
             blocked == out.blocked
         IN
         /\ Finish(out)
         /\ sessions_active' = IF denied THEN sessions_active ELSE active
         /\ episodeBlocks' = IF blocked THEN Min(episodeBlocks + 1, BlocksCap) ELSE episodeBlocks
         /\ runBlocks' = IF denied THEN 0
                         ELSE IF blocked THEN Min(runBlocks + 1, BlocksCap)
                         ELSE runBlocks
    /\ UNCHANGED episodeStages

TickEnd ==
    /\ lockHeld
    /\ action = "tick_end"
    /\ Finish(end_outcome)
    /\ UNCHANGED <<sessions_active, episodeStages, episodeBlocks, runBlocks>>

NopState ==
    /\ lockHeld
    /\ action = "nop_state"
    /\ Finish(nop_outcome(state))
    /\ UNCHANGED <<sessions_active, episodeStages, episodeBlocks, runBlocks>>

Next ==
    \/ Started
    \/ IpcRequest
    \/ IpcReturn
    \/ TimerFire
    \/ HandleTick
    \/ AcquireLock
    \/ TickInitialize
    \/ TickReportSteady
    \/ TickCheckUpdates
    \/ TickStageUpdate
    \/ TickFinalizeUpdate
    \/ TickEnd
    \/ NopState

Spec == Init /\ [][Next]_vars

(* ---------------------------------------------------------------------- *)
(* The agent with collaborators that never say no, under fair scheduling   *)
(* ---------------------------------------------------------------------- *)

\* Staging, the strategy's can_finalize, the user-session gate and finalize
\* always let the update proceed.
InitLive ==
    /\ enabled \in BOOLEAN
    /\ started = FALSE
    /\ state = StartState
    /\ lockHeld = FALSE
    /\ prev_state = StartState
    /\ action = "none"
    /\ calls = {}
    /\ sessions_active = FALSE
    /\ mailbox = <<>>
    /\ waiting = 0
    /\ timers = 0
    /\ parked = 0
    /\ sched = [prev |-> StartState, cur |-> StartState, out |-> "none"]
    /\ episodeStages = 0
    /\ episodeBlocks = 0
    /\ runBlocks = 0
    /\ faults = FALSE
    /\ finalization_success = 0
    /\ holders = 0
    /\ dbus = DbusIdle
    /\ InitSide

\* The actor drains its mailbox, due timers fire, the lock is granted to a
\* waiting tick and a tick that owns the guard runs to its end.
Fairness ==
    /\ WF_vars(Started)
    /\ WF_vars(TimerFire)
    /\ WF_vars(HandleTick)
    /\ WF_vars(AcquireLock)
    /\ WF_vars(TickInitialize)
    /\ WF_vars(TickReportSteady)
    /\ WF_vars(TickCheckUpdates)
    /\ WF_vars(TickStageUpdate)
    /\ WF_vars(TickFinalizeUpdate)
    /\ WF_vars(TickEnd)
    /\ WF_vars(NopState)

SpecLive == InitLive /\ [][Next]_vars /\ Fairness


(* ---------------------------------------------------------------------- *)
(* The scheduling decision over every pair of agent states                 *)
(* ---------------------------------------------------------------------- *)

InitSched ==
    /\ enabled \in BOOLEAN
    /\ started = FALSE
    /\ state = StartState
    /\ lockHeld = FALSE
    /\ prev_state = StartState
    /\ action = "none"
    /\ calls = {}
    /\ sessions_active = FALSE
    /\ mailbox = <<>>
    /\ waiting = 0
    /\ timers = 0
    /\ parked = 0
    /\ sched \in [prev : AllStates, cur : AllStates, out : {"none"}]
    /\ episodeStages = 0
    /\ episodeBlocks = 0
    /\ runBlocks = 0
    /\ faults = TRUE
    /\ finalization_success = 0
    /\ holders = 0
    /\ dbus = DbusIdle
    /\ InitSide

\* update_machine's call of refresh_delay(prev_state, *state).
RefreshDelay ==
    /\ sched.out = "none"
    /\ sched' = [sched EXCEPT !.out =
                   IF refresh_delay(sched.prev, sched.cur) = "immediate"
                   THEN "immediate" ELSE "delayed"]
    /\ UNCHANGED <<enabled, started, state, lockHeld, prev_state, action, calls,
                   sessions_active, mailbox, waiting, timers, parked,
                   episodeStages, episodeBlocks, runBlocks,
                   faults, finalization_success, holders, dbus, sideVars>>

NextSched == RefreshDelay

SpecSched == InitSched /\ [][NextSched]_vars


(* ---------------------------------------------------------------------- *)
(* The D-Bus methods' return value over every result of the message        *)
(* ---------------------------------------------------------------------- *)

\* The agent before Actor::started.
InitAgent ==
    /\ enabled \in BOOLEAN
    /\ started = FALSE
    /\ state = StartState
    /\ lockHeld = FALSE
    /\ prev_state = StartState
    /\ action = "none"
    /\ calls = {}
    /\ sessions_active = FALSE
    /\ mailbox = <<>>
    /\ waiting = 0
    /\ timers = 0
    /\ parked = 0
    /\ sched = [prev |-> StartState, cur |-> StartState, out |-> "none"]
    /\ episodeStages = 0
    /\ episodeBlocks = 0
    /\ runBlocks = 0
    /\ faults = TRUE
    /\ finalization_success = 0
    /\ holders = 0
    /\ dbus = DbusIdle

\* What send_msg_to_agent may hand to the method's match.
Results == {ResErr} \cup {ResOk(s) : s \in AllStates}

InitReply ==
    /\ InitAgent
    /\ reply \in [cmd : {"CheckUpdate", "FinalizeUpdate"}, res : Results, out : {NoRet}]
    /\ jitter_call = NoJitter
    /\ InitClient

\* check_update matches the result and returns.
CheckUpdateReturns ==
    /\ reply.cmd = "CheckUpdate"
    /\ reply.out = NoRet
    /\ reply' = [reply EXCEPT !.out = check_update(reply.res)]
    /\ UNCHANGED <<agentVars, jitter_call, clientVars>>

\* finalize_update matches the result and returns.
FinalizeUpdateReturns ==
    /\ reply.cmd = "FinalizeUpdate"
    /\ reply.out = NoRet
    /\ reply' = [reply EXCEPT !.out = finalize_update(reply.res)]
    /\ UNCHANGED <<agentVars, jitter_call, clientVars>>

NextReply ==
    \/ CheckUpdateReturns
    \/ FinalizeUpdateReturns

SpecReply == InitReply /\ [][NextReply]_vars


(* ---------------------------------------------------------------------- *)
(* add_jitter over every period and random draw                            *)
(* ---------------------------------------------------------------------- *)

InitJitter ==
    /\ InitAgent
    /\ reply = NoReply
    /\ jitter_call \in [secs : 0..U64_MAX, rand : {0}, out : {0}, done : {FALSE}]
    /\ InitClient

\* refresh_delay's call of add_jitter; rand is gen_range(0..=10).
AddJitter ==
    /\ ~jitter_call.done
    /\ \E rand \in 0..10 :
         jitter_call' = [secs |-> jitter_call.secs, rand |-> rand,
                         out |-> add_jitter(jitter_call.secs, rand), done |-> TRUE]
    /\ UNCHANGED <<agentVars, reply, clientVars>>

NextJitter == AddJitter

SpecJitter == InitJitter /\ [][NextJitter]_vars


(* ---------------------------------------------------------------------- *)
(* The deployment client: status queries through the cache                 *)
(* ---------------------------------------------------------------------- *)

InitCache ==
    /\ InitAgent
    /\ reply = NoReply
    /\ jitter_call = NoJitter
    /\ client = [status_cache |-> NoCache]
    /\ depls_dir \in DirStates
    /\ status_cache_attempts = 0
    /\ status_cache_misses = 0
    /\ query = NoQuery

\* local_deployments(client, omit_staged): status_json, then
\* parse_local_deployments on its result.
LocalDeployments ==
    /\ status_cache_attempts < MaxQueries
    /\ \E omit_staged \in BOOLEAN, tool \in ToolResults :
         LET r == status_json(client, depls_dir, tool) IN
         /\ client' = [client EXCEPT !.status_cache = r.status_cache]
         /\ status_cache_attempts' = status_cache_attempts + 1
         /\ status_cache_misses' = status_cache_misses + r.miss
         /\ query' = [op |-> "local_deployments", omit_staged |-> omit_staged,
                      status |-> r.status, ok |-> r.ok, invoked |-> r.invoked,
                      depls |-> IF r.ok
                                THEN parse_local_deployments(r.status, omit_staged)
                                ELSE {}]
    /\ UNCHANGED <<agentVars, reply, jitter_call, depls_dir>>

\* The deployments directory is modified, removed or restored between queries.
DeploymentsDirChanges ==
    /\ \E d \in DirStates : d # depls_dir /\ depls_dir' = d
    /\ UNCHANGED <<agentVars, reply, jitter_call, client,
                   status_cache_attempts, status_cache_misses, query>>

NextCache ==
    \/ LocalDeployments
    \/ DeploymentsDirChanges

SpecCache == InitCache /\ [][NextCache]_vars


(* ---------------------------------------------------------------------- *)
(* parse_local_deployments over every status payload                       *)
(* ---------------------------------------------------------------------- *)

\* Payloads of up to MaxDepls deployments, releases repeated or not.
Entries == {Entry(r, st, r = Booted) : r \in Releases \cup {Booted}, st \in BOOLEAN}
Payloads == UNION {[1..n -> Entries] : n \in 0..MaxDepls}

InitParse ==
    /\ InitAgent
    /\ reply = NoReply
    /\ jitter_call = NoJitter
    /\ client = [status_cache |-> NoCache]
    /\ depls_dir = [ok |-> TRUE, mtime |-> 0]
    /\ status_cache_attempts = 0
    /\ status_cache_misses = 0
    /\ query \in [op : {"parse"}, omit_staged : BOOLEAN, status : Payloads,
                  ok : {FALSE}, invoked : {0}, depls : {{}}]

ParseLocalDeployments ==
    /\ query.op = "parse"
    /\ ~query.ok
    /\ query' = [query EXCEPT !.ok = TRUE,
                   !.depls = parse_local_deployments(query.status, query.omit_staged)]
    /\ UNCHANGED <<agentVars, reply, jitter_call, client, depls_dir,
                   status_cache_attempts, status_cache_misses>>

NextParse == ParseLocalDeployments

SpecParse == InitParse /\ [][NextParse]_vars


(* ---------------------------------------------------------------------- *)
(* Properties                                                              *)
(* ---------------------------------------------------------------------- *)

\* The last tick has completed and it ran the given tick_* function.
TickDone(fn) == ~lockHeld /\ action = fn

\* The action table of the state machine: state -> Action.
action_for(s) ==
    CASE s.tag = "StartState" -> "Initialize"
      [] s.tag = "Initialized" -> "ReportSteady"
      [] s.tag \in {"ReportedSteady", "NoNewUpdate"} -> "CheckUpdates"
      [] s.tag = "UpdateAvailable" -> "Stage"
      [] s.tag = "UpdateStaged" -> "Finalize"
      [] s.tag = "UpdateFinalized" -> "WaitForReboot"
      [] s.tag = "EndState" -> "Nop"

\* The tick_* function that implements an Action.
HandlerOf(a) ==
    CASE a = "Initialize" -> "tick_initialize"
      [] a = "ReportSteady" -> "tick_report_steady"
      [] a = "CheckUpdates" -> "tick_check_updates"
      [] a = "Stage" -> "tick_stage_update"
      [] a = "Finalize" -> "tick_finalize_update"
      [] a = "WaitForReboot" -> "tick_end"
      [] a = "Nop" -> "nop_state"

\* The external operations an Action may perform, for a tick that read s.
CallsOf(s) ==
    CASE action_for(s) = "Initialize" ->
           {<<"register_as_driver", NoRelease>>, <<"local_deployments", NoRelease>>}
      [] action_for(s) = "ReportSteady" -> {<<"report_steady", NoRelease>>}
      [] action_for(s) = "CheckUpdates" ->
           {<<"local_deployments", NoRelease>>}
             \cup {<<"fetch_update_hint", r>> : r \in Releases \cup {NoRelease}}
      [] action_for(s) = "Stage" -> {<<"stage", s.rel>>}
      [] action_for(s) = "Finalize" ->
           {<<"can_finalize", s.rel>>, <<"usersessions_can_finalize", s.rel>>,
            <<"finalize", s.rel>>}
      [] OTHER -> {}

\* C1: a tick runs the action mapped to the state it read when it acquired
\* the lock, and makes no external call of any other action.
C1_TickActionFollowsState ==
    /\ action # "none" => action = HandlerOf(action_for(prev_state))
    /\ \A c \in calls : <<c.op, c.rel>> \in CallsOf(prev_state)

C1_Witness ==
    /\ TickDone("tick_check_updates")
    /\ prev_state = NoNewUpdate
    /\ \E c \in calls : c.op = "fetch_update_hint" /\ c.ok

\* C2: for every pair (prev, cur) the scheduler ticks immediately iff the
\* discriminants differ and the pair is not (ReportedSteady, NoNewUpdate).
C2_ImmediateIffChanged ==
    sched.out # "none" =>
        (sched.out = "immediate"
           <=> (/\ sched.prev.tag # sched.cur.tag
                /\ <<sched.prev.tag, sched.cur.tag>> # <<"ReportedSteady", "NoNewUpdate">>))

C2_Witness ==
    /\ sched.out = "delayed"
    /\ sched.prev = ReportedSteady
    /\ sched.cur = NoNewUpdate

\* C3: CheckUpdates ends in UpdateAvailable(release, 0) exactly when the
\* update graph returned Some(release), in NoNewUpdate otherwise, and does
\* not consult the graph when the local-deployments query failed.
C3_CheckUpdatesResult ==
    TickDone("tick_check_updates") =>
        LET found == {c \in calls : c.op = "fetch_update_hint" /\ c.ok} IN
        /\ prev_state \in {ReportedSteady, NoNewUpdate}
        /\ found # {} => \E c \in found : state = UpdateAvailable(c.rel, 0)
        /\ found = {} => state = NoNewUpdate
        /\ Call("local_deployments", NoRelease, FALSE) \in calls =>
               /\ \A c \in calls : c.op # "fetch_update_hint"
               /\ state = NoNewUpdate

C3_Witness ==
    /\ TickDone("tick_check_updates")
    /\ state = UpdateAvailable("r1", 0)
    /\ Call("fetch_update_hint", "r1", TRUE) \in calls

\* C4: every entry into UpdateStaged carries MAX_FINALIZE_POSTPONEMENTS
\* postponements, whatever the fail count of the UpdateAvailable it left.
C4_StagedSuccess ==
    (TickDone("tick_stage_update") /\ Call("stage", prev_state.rel, TRUE) \in calls)
        => state = UpdateStaged(prev_state.rel, MAX_FINALIZE_POSTPONEMENTS)

C4_EntryStep ==
    (state.tag # "UpdateStaged" /\ state'.tag = "UpdateStaged")
        => /\ state.tag = "UpdateAvailable"
           /\ state' = UpdateStaged(state.rel, MAX_FINALIZE_POSTPONEMENTS)

C4_EntryResetsPostponements == [](C4_StagedSuccess) /\ [][C4_EntryStep]_vars

C4_Witness ==
    /\ TickDone("tick_stage_update")
    /\ prev_state.tag = "UpdateAvailable"
    /\ prev_state.cnt > 0
    /\ state = UpdateStaged(prev_state.rel, MAX_FINALIZE_POSTPONEMENTS)

\* C5: a failed Stage(r) in UpdateAvailable(r, c) gives UpdateAvailable(r, c+1),
\* or NoNewUpdate when c+1 = MAX_DEPLOY_ATTEMPTS; stage() runs at most
\* MAX_DEPLOY_ATTEMPTS times in one UpdateAvailable episode.
C5_StageFailureCounts ==
    /\ episodeStages <= MAX_DEPLOY_ATTEMPTS
    /\ (TickDone("tick_stage_update") /\ Call("stage", prev_state.rel, FALSE) \in calls)
         => state = IF prev_state.cnt + 1 = MAX_DEPLOY_ATTEMPTS
                    THEN NoNewUpdate
                    ELSE UpdateAvailable(prev_state.rel, prev_state.cnt + 1)

C5_Witness ==
    /\ TickDone("tick_stage_update")
    /\ Call("stage", prev_state.rel, FALSE) \in calls
    /\ prev_state.cnt + 1 = MAX_DEPLOY_ATTEMPTS
    /\ state = NoNewUpdate

\* C6 as stated: the state UpdateAvailable(r, MAX_DEPLOY_ATTEMPTS) is observed
\* before staging failures abandon the release to NoNewUpdate.
C6_AbandonAfterMaxObserved ==
    (TickDone("tick_stage_update") /\ state = NoNewUpdate)
        => prev_state = UpdateAvailable(prev_state.rel, MAX_DEPLOY_ATTEMPTS)

\* C6 amended: under repeated staging failures the states are
\* UpdateAvailable(r,0), ..., UpdateAvailable(r, MAX_DEPLOY_ATTEMPTS - 1) and
\* then NoNewUpdate; UpdateAvailable(r, MAX_DEPLOY_ATTEMPTS) is never a state.
C6_AbandonAtMax ==
    /\ state.tag = "UpdateAvailable" =>
           /\ state.cnt = episodeStages
           /\ state.cnt <= MAX_DEPLOY_ATTEMPTS - 1
    /\ (TickDone("tick_stage_update") /\ state = NoNewUpdate) =>
           /\ prev_state = UpdateAvailable(prev_state.rel, MAX_DEPLOY_ATTEMPTS - 1)
           /\ episodeStages = MAX_DEPLOY_ATTEMPTS

C6_Witness ==
    /\ sched.prev = UpdateAvailable("r1", MAX_DEPLOY_ATTEMPTS - 1)
    /\ sched.cur = NoNewUpdate
    /\ state = NoNewUpdate
    /\ episodeStages = MAX_DEPLOY_ATTEMPTS


\* C7: when the strategy denies finalization in UpdateStaged(r, n) the state
\* after the tick is UpdateStaged(r, MAX_FINALIZE_POSTPONEMENTS), finalize is
\* not called, and the user-session gate is neither evaluated nor counted.
C7_DenialStep ==
    (/\ lockHeld /\ ~lockHeld'
     /\ action = "tick_finalize_update"
     /\ Call("can_finalize", prev_state.rel, FALSE) \in calls')
        => /\ prev_state.tag = "UpdateStaged"
           /\ state' = UpdateStaged(prev_state.rel, MAX_FINALIZE_POSTPONEMENTS)
           /\ \A c \in calls' : c.op \notin {"finalize", "usersessions_can_finalize"}
           /\ episodeBlocks' = episodeBlocks

C7_StrategyDenialResets == [][C7_DenialStep]_vars

C7_Witness ==
    /\ TickDone("tick_finalize_update")
    /\ Call("can_finalize", prev_state.rel, FALSE) \in calls
    /\ prev_state.cnt < MAX_FINALIZE_POSTPONEMENTS
    /\ state = UpdateStaged(prev_state.rel, MAX_FINALIZE_POSTPONEMENTS)

\* C8: postponements_remaining stays within 0..MAX_FINALIZE_POSTPONEMENTS; with
\* strategy consent, active user sessions and n > 0 the tick leaves
\* UpdateStaged(r, n-1) without finalize; with n = 0 finalize(r) is called
\* whether or not user sessions are active.
C8_PostponementGate ==
    LET consent == Call("can_finalize", prev_state.rel, TRUE) \in calls
        finalized == \E c \in calls : c.op = "finalize" /\ c.rel = prev_state.rel
    IN
    /\ state.tag = "UpdateStaged" => state.cnt \in 0..MAX_FINALIZE_POSTPONEMENTS
    /\ (TickDone("tick_finalize_update") /\ consent) =>
           /\ (sessions_active /\ prev_state.cnt > 0) =>
                  /\ state = UpdateStaged(prev_state.rel, prev_state.cnt - 1)
                  /\ ~finalized
           /\ prev_state.cnt = 0 => finalized

C8_Witness ==
    /\ TickDone("tick_finalize_update")
    /\ Call("can_finalize", prev_state.rel, TRUE) \in calls
    /\ prev_state.cnt = 0
    /\ sessions_active
    /\ \E c \in calls : c.op = "finalize" /\ c.rel = prev_state.rel

\* C9 as stated: in one UpdateStaged episode at most
\* MAX_FINALIZE_POSTPONEMENTS finalization attempts are deferred because of
\* active user sessions, whatever the strategy and the sessions answer.
C9_EpisodeBlocksBounded == episodeBlocks <= MAX_FINALIZE_POSTPONEMENTS

\* C9 amended: at most MAX_FINALIZE_POSTPONEMENTS finalization attempts are
\* deferred because of active user sessions since UpdateStaged was entered
\* or since the strategy last denied finalization, whichever is later.
C9_RunBlocksBounded ==
    /\ runBlocks <= MAX_FINALIZE_POSTPONEMENTS
    /\ state.tag = "UpdateStaged" => runBlocks + state.cnt = MAX_FINALIZE_POSTPONEMENTS

C9_Witness ==
    /\ state.tag = "UpdateStaged"
    /\ runBlocks = MAX_FINALIZE_POSTPONEMENTS
    /\ episodeBlocks > MAX_FINALIZE_POSTPONEMENTS

\* C10: UpdateFinalized(r) is entered only from UpdateStaged(r, _), in a tick
\* where the strategy consented and finalize(r) succeeded.
C10_EntryStep ==
    (state.tag # "UpdateFinalized" /\ state'.tag = "UpdateFinalized")
        => /\ state.tag = "UpdateStaged"
           /\ state' = UpdateFinalized(state.rel)
           /\ action = "tick_finalize_update"
           /\ Call("can_finalize", state.rel, TRUE) \in calls'
           /\ Call("finalize", state.rel, TRUE) \in calls'

C10_FinalizedOnlyAfterConsent == [][C10_EntryStep]_vars

C10_Witness ==
    /\ TickDone("tick_finalize_update")
    /\ prev_state.tag = "UpdateStaged"
    /\ state = UpdateFinalized(prev_state.rel)


\* C11: a failed finalize(r) in UpdateStaged(r, n) leaves the state
\* UpdateStaged(r, n); UpdateStaged is only ever left for
\* UpdateFinalized, so failures never abandon the release.
C11_FailStep ==
    /\ (/\ lockHeld /\ ~lockHeld'
        /\ action = "tick_finalize_update"
        /\ Call("finalize", prev_state.rel, FALSE) \in calls')
           => /\ state.tag = "UpdateStaged"
              /\ state' = state
    /\ state.tag = "UpdateStaged" => state'.tag \in {"UpdateStaged", "UpdateFinalized"}

C11_FinalizeFailureKeepsState == [][C11_FailStep]_vars

C11_Witness ==
    /\ TickDone("tick_finalize_update")
    /\ Call("finalize", prev_state.rel, FALSE) \in calls
    /\ prev_state.cnt \in 1..(MAX_FINALIZE_POSTPONEMENTS - 1)
    /\ state = prev_state

\* C12: when staging, the strategy, the user-session gate and finalize never
\* say no, a release r found by the update graph leads to EndState through
\* UpdateAvailable(r,0), UpdateStaged(r, MAX_FINALIZE_POSTPONEMENTS) and
\* UpdateFinalized(r), in this order, with exactly one finalization success.
C12_OrderStep ==
    state' # state =>
        CASE state.tag \in {"ReportedSteady", "NoNewUpdate"} ->
               state' \in {NoNewUpdate} \cup {UpdateAvailable(r, 0) : r \in Releases}
          [] state.tag = "UpdateAvailable" ->
               state' = UpdateStaged(state.rel, MAX_FINALIZE_POSTPONEMENTS)
          [] state.tag = "UpdateStaged" -> state' = UpdateFinalized(state.rel)
          [] state.tag = "UpdateFinalized" -> state' = EndState
          [] OTHER -> TRUE

C12_SuccessCount ==
    /\ state.tag = "UpdateFinalized" => finalization_success = 1
    /\ (state = EndState /\ enabled) => finalization_success = 1
    /\ state.tag \notin {"UpdateFinalized", "EndState"} => finalization_success = 0

C12_UpdateReachesEnd ==
    /\ [][C12_OrderStep]_vars
    /\ [](C12_SuccessCount)
    /\ \A r \in Releases : (state = UpdateAvailable(r, 0)) ~> (state = EndState)

C12_Witness ==
    /\ ~faults
    /\ enabled
    /\ state = EndState
    /\ sched.prev.tag = "UpdateFinalized"
    /\ finalization_success = 1

\* C13: once the state is EndState it stays EndState, and no tick makes an
\* external call any more.
C13_EndStep ==
    state = EndState =>
        /\ state' = EndState
        /\ calls' \subseteq calls

C13_EndStateIsFinal == [][C13_EndStep]_vars

C13_Witness ==
    /\ TickDone("nop_state")
    /\ prev_state = EndState
    /\ state = EndState
    /\ calls = {}

\* C14 as stated: with enabled=false Initialize issues neither a driver
\* registration nor a status query.
C14_NoCallsWhenDisabled ==
    (~enabled /\ TickDone("tick_initialize")) => calls = {}

\* C14 amended: with enabled=false Initialize does not register as driver
\* but does issue the local-deployments status query, then ends in EndState.
C14_DisabledQueriesOnly ==
    (~enabled /\ TickDone("tick_initialize")) =>
        /\ state = EndState
        /\ calls # {}
        /\ \A c \in calls : c.op = "local_deployments"

C14_Witness ==
    /\ ~enabled
    /\ TickDone("tick_initialize")
    /\ \E c \in calls : c.op = "local_deployments" /\ c.ok

\* C15 as stated: the tick that sets the state to EndState posts no further
\* tick, neither immediate nor delayed.
C15_NoTickStep ==
    (state # EndState /\ state' = EndState)
        => (mailbox' = mailbox /\ timers' = timers /\ parked' = parked)

C15_NoTickAfterEnd == [][C15_NoTickStep]_vars

\* C15 amended: the tick that sets the state to EndState posts one immediate
\* tick; a tick that runs in EndState posts only a tick with the EndState
\* delay, which never becomes due.
C15_EndStep ==
    /\ (state # EndState /\ state' = EndState) =>
           /\ sched'.out = "immediate"
           /\ mailbox' = Append(mailbox, "RefreshTick")
           /\ timers' = timers /\ parked' = parked
    /\ (lockHeld /\ ~lockHeld' /\ prev_state = EndState) =>
           /\ state' = EndState
           /\ sched'.out = "delayed"
           /\ mailbox' = mailbox /\ timers' = timers /\ parked' = parked + 1
    /\ parked' >= parked

C15_EndScheduling == [][C15_EndStep]_vars

C15_Witness ==
    /\ TickDone("nop_state")
    /\ state = EndState
    /\ parked >= 1
    /\ sched.prev = EndState

\* C16: driver registration is attempted in Initialize exactly when enabled,
\* and with enabled the state after Initialize is Initialized whether or not
\* the registration succeeded.
C16_RegistrationNonFatal ==
    /\ \A c \in calls : c.op = "register_as_driver" => (enabled /\ action = "tick_initialize")
    /\ TickDone("tick_initialize") =>
           /\ enabled <=> (\E c \in calls : c.op = "register_as_driver")
           /\ enabled => state = Initialized

C16_Witness ==
    /\ TickDone("tick_initialize")
    /\ Call("register_as_driver", NoRelease, FALSE) \in calls
    /\ state = Initialized

\* C17 as stated: a tick whose local-deployments query fails ends in EndState.
C17_QueryFailureIsFatal ==
    (/\ ~lockHeld
     /\ action \in {"tick_initialize", "tick_check_updates"}
     /\ CallQuery(QueryErr) \in calls)
        => state = EndState

\* C17 amended: a failed local-deployments query is not fatal: Initialize
\* ends in Initialized when enabled and in EndState only when disabled, and
\* CheckUpdates ends in NoNewUpdate.
C17_QueryFailureNotFatal ==
    /\ (TickDone("tick_initialize") /\ CallQuery(QueryErr) \in calls) =>
           state = IF enabled THEN Initialized ELSE EndState
    /\ (TickDone("tick_check_updates") /\ CallQuery(QueryErr) \in calls) =>
           state = NoNewUpdate

C17_Witness ==
    /\ enabled
    /\ TickDone("tick_initialize")
    /\ CallQuery(QueryErr) \in calls
    /\ state = Initialized

\* C18: the release of UpdateAvailable is never the booted deployment nor a
\* finalized local deployment known to the tick that chose it; a deployment
\* that is only staged may be chosen.
C18_TargetNotLocal ==
    /\ state.tag = "UpdateAvailable" => (state.rel # Booted /\ state.rel \in Releases)
    /\ (TickDone("tick_check_updates") /\ state.tag = "UpdateAvailable") =>
           \E c \in calls :
               /\ c.op = "local_deployments" /\ c.ok
               /\ Booted \in c.depls
               /\ state.rel \notin c.depls

C18_Witness ==
    /\ TickDone("tick_check_updates")
    /\ state = UpdateAvailable("r1", 0)
    /\ \E c \in calls :
           /\ c.op = "local_deployments"
           /\ "r1" \in c.staged
           /\ "r2" \in c.depls

\* C19: at most one tick future owns the write guard, however many
\* RefreshTick messages are in flight, and the state a tick clones as
\* prev_state is the one the previously completed tick left.
C19_TicksExclusive ==
    /\ holders <= 1
    /\ lockHeld <=> holders = 1
    /\ sched.out # "none" => state = sched.cur
    /\ (lockHeld /\ sched.out # "none") => prev_state = sched.cur

C19_Witness ==
    /\ lockHeld
    /\ holders = 1
    /\ waiting >= 1
    /\ dbus.tick = "waiting"
    /\ sched.out # "none"
    /\ prev_state = sched.cur

\* C20: the reply to a D-Bus request is produced only after the tick the
\* request caused has completed.
C20_ReplyAfterTick ==
    dbus.phase = "replied" => dbus.tick = "completed"

\* C21: the value a D-Bus method returns depends only on the agent state in
\* the result it received: CheckUpdate gives [] for NoNewUpdate, [version]
\* for UpdateAvailable and "unexpected state" otherwise; FinalizeUpdate gives
\* [version] for UpdateFinalized, an error for UpdateStaged and "unexpected
\* state" otherwise.
C21_ReplyOfState ==
    (reply.out # NoRet /\ reply.res.ok) =>
        LET s == reply.res.state IN
        /\ reply.cmd = "CheckUpdate" =>
             reply.out = CASE s.tag = "NoNewUpdate" -> Ret("ok", <<>>)
                           [] s.tag = "UpdateAvailable" -> Ret("ok", <<s.rel>>)
                           [] OTHER -> Ret("unexpected state", <<>>)
        /\ reply.cmd = "FinalizeUpdate" =>
             CASE s.tag = "UpdateFinalized" -> reply.out = Ret("ok", <<s.rel>>)
               [] s.tag = "UpdateStaged" ->
                    /\ reply.out.kind \notin {"ok", "unexpected state"}
                    /\ reply.out.versions = <<>>
               [] OTHER -> reply.out = Ret("unexpected state", <<>>)

C21_Witness ==
    /\ reply.cmd = "CheckUpdate"
    /\ reply.res = ResOk(UpdateAvailable("r1", 2))
    /\ reply.out = Ret("ok", <<"r1">>)

\* The tick caused by the D-Bus call completes in this step.
DbusTickCompletes == lockHeld /\ dbus.tick = "running" /\ ~lockHeld'

\* C22: a FinalizeUpdate request with force=true in UpdateStaged(r, n)
\* bypasses only the user-session gate: when the strategy allows, finalize(r)
\* is called whatever the sessions and n are; when the strategy denies,
\* finalize(r) is not called and the state stays UpdateStaged.
C22_ForceStep ==
    (/\ DbusTickCompletes
     /\ dbus.cmd = "FinalizeUpdate"
     /\ dbus.force
     /\ state.tag = "UpdateStaged") =>
        IF \E c \in calls' : c.op = "can_finalize" /\ c.ok
        THEN \E c \in calls' : c.op = "finalize" /\ c.rel = state.rel
        ELSE /\ ~\E c \in calls' : c.op = "finalize"
             /\ state'.tag = "UpdateStaged"

C22_ForceBypassesSessionsOnly == [][C22_ForceStep]_vars

\* What the D-Bus method answers for a post-tick state.
AnswerFor(cmd, s) ==
    IF cmd = "CheckUpdate" THEN check_update(ResOk(s)) ELSE finalize_update(ResOk(s))

\* C23: a D-Bus request whose answer is the "unexpected state" failure has
\* caused no state change: the tick it caused leaves the state as it was.
C23_MismatchStep ==
    (DbusTickCompletes /\ AnswerFor(dbus.cmd, state').kind = "unexpected state")
        => state' = state

C23_MismatchChangesNothing == [][C23_MismatchStep]_vars

\* The cache entry is fresh for the directory as it is now.
CacheFresh ==
    /\ client.status_cache.some
    /\ depls_dir.ok
    /\ client.status_cache.mtime = depls_dir.mtime

\* A status query is made in this step.
StatusQueried == status_cache_attempts' # status_cache_attempts

\* C24 as stated: a query returns the cached status without invoking the
\* tool iff the cache entry's mtime equals the directory's; every other
\* query invokes the tool once, counts one miss and, on success, refills the
\* cache with the status returned and the mtime read.
C24_QueryStep ==
    StatusQueried =>
        /\ status_cache_attempts' = status_cache_attempts + 1
        /\ IF CacheFresh
           THEN /\ query'.invoked = 0
                /\ query'.ok
                /\ query'.status = client.status_cache.status
                /\ status_cache_misses' = status_cache_misses
                /\ client' = client
           ELSE /\ query'.invoked = 1
                /\ status_cache_misses' = status_cache_misses + 1
                /\ query'.ok =>
                     client'.status_cache = StatusCache(query'.status, depls_dir.mtime)

C24_HitOrInvoke == [][C24_QueryStep]_vars

\* C24 amended: the same when the directory's mtime can be read; when it
\* cannot, the query fails having counted one attempt and no miss, without
\* invoking the tool and without touching the cache.  A failed invocation
\* leaves the cache as it was.  Misses never exceed attempts.
C24_ReadableStep ==
    StatusQueried =>
        /\ status_cache_attempts' = status_cache_attempts + 1
        /\ IF ~depls_dir.ok
           THEN /\ query'.invoked = 0
                /\ ~query'.ok
                /\ status_cache_misses' = status_cache_misses
                /\ client' = client
           ELSE IF CacheFresh
           THEN /\ query'.invoked = 0
                /\ query'.ok
                /\ query'.status = client.status_cache.status
                /\ status_cache_misses' = status_cache_misses
                /\ client' = client
           ELSE /\ query'.invoked = 1
                /\ status_cache_misses' = status_cache_misses + 1
                /\ IF query'.ok
                   THEN client'.status_cache = StatusCache(query'.status, depls_dir.mtime)
                   ELSE client' = client

C24_CacheByMtime ==
    /\ [](status_cache_misses <= status_cache_attempts)
    /\ [][C24_ReadableStep]_vars

C24_Witness ==
    /\ query.op = "local_deployments"
    /\ query.ok
    /\ query.invoked = 0
    /\ status_cache_attempts = 3
    /\ status_cache_misses = 2
    /\ client.status_cache.some
    /\ client.status_cache.mtime = 1

\* C25: parse_local_deployments(status, true) is the set of releases of the
\* entries that are not staged, parse_local_deployments(status, false) the
\* set of releases of all entries, and the former is a subset of the latter.
C25_ParseLocalDeployments ==
    (query.op = "parse" /\ query.ok) =>
        /\ \A r \in Releases \cup {Booted} :
             r \in query.depls <=>
                \E i \in DOMAIN query.status :
                    /\ query.status[i].release = r
                    /\ query.omit_staged => ~query.status[i].staged
        /\ query.depls \subseteq Releases \cup {Booted}
        /\ parse_local_deployments(query.status, TRUE)
             \subseteq parse_local_deployments(query.status, FALSE)

C25_Witness ==
    /\ query.op = "parse"
    /\ query.ok
    /\ query.omit_staged
    /\ Len(query.status) = 3
    /\ query.status[1].release = query.status[2].release
    /\ \E i \in DOMAIN query.status : query.status[i].staged
    /\ Cardinality(query.depls) = 1

\* C26: for every period P > 0 and every draw, jitter(P) lies in
\* [P, P + 10 * max(P / 100, 1)], also when the addition saturates.
C26_JitterBounds ==
    (jitter_call.done /\ jitter_call.secs > 0) =>
        /\ jitter_call.out >= jitter_call.secs
        /\ jitter_call.out <= jitter_call.secs + 10 * Max(jitter_call.secs \div 100, 1)

C26_Witness ==
    /\ jitter_call.done
    /\ jitter_call.secs > 0
    /\ jitter_call.secs + Max(jitter_call.secs \div 100, 1) * jitter_call.rand > U64_MAX
    /\ jitter_call.out = U64_MAX

\* C27: add_jitter adds between 0% and 10% of the period: for every period P
\* and every draw, 0 <= jitter(P) - P <= P / 10.
C27_JitterWithinTenPercent ==
    jitter_call.done =>
        /\ jitter_call.out - jitter_call.secs >= 0
        /\ 10 * (jitter_call.out - jitter_call.secs) <= jitter_call.secs

\* The RefreshTick messages the agent has posted to itself and not yet handled.
SelfScheduled ==
    Cardinality({i \in DOMAIN mailbox : mailbox[i] = "RefreshTick"}) + timers + parked

\* C28: at any time at most one self-scheduled tick, immediate or delayed,
\* is pending for the agent.
C28_OneSelfScheduledTick == SelfScheduled <= 1

====
